---- MODULE Spec2Model ----
(***************************************************************************)
(* Model of fritzbox_smart_home.py: the normalizer getSimplifiedDevices,   *)
(* the sorter getDevices, the two emitters print_smart_home_measurements   *)
(* and print_config, and the __main__ dispatch.                            *)
(*                                                                         *)
(* Python dicts are functions with string domains; a key is "in" the dict  *)
(* when it is in the DOMAIN.  Lists are sequences.  Python's None is the   *)
(* value None below.  Sensor readings that the program only passes         *)
(* through to format() are the decimal text of the JSON number.            *)
(***************************************************************************)
EXTENDS Integers, Sequences, FiniteSets, TLC

VARIABLES
    argv,               \* sys.argv[1:]
    environ,            \* os.environ
    response,           \* what postPageWithLogin returns or raises
    pc,                 \* where the process is
    simplifiedDevices,  \* the dict getSimplifiedDevices builds
    devices,            \* the list getDevices returned
    stdout, stderr, exitStatus,
    fetches,            \* calls of postPageWithLogin so far
    devIdx, unitIdx, skillIdx,  \* the loops of getSimplifiedDevices
    simpleDev           \* the record of the device being normalized

vars == <<argv, environ, response, pc, simplifiedDevices, devices, stdout,
          stderr, exitStatus, fetches, devIdx, unitIdx, skillIdx, simpleDev>>

-----------------------------------------------------------------------------
(* Python dict primitives *)

EmptyDict == [k \in {} |-> TRUE]

Has(d, k) == k \in DOMAIN d

Put(d, k, v) == [y \in (DOMAIN d) \cup {k} |-> IF y = k THEN v ELSE d[y]]

None == "None"

-----------------------------------------------------------------------------
(* IEEE-754 binary64 arithmetic on non-negative values, as CPython's float *)
(* does it.  A float is [mant, exp]: mant is the 53-bit significand, most  *)
(* significant bit first, and the value is mant * 2^exp.                   *)

\* bit length of a natural below 2^30
BitLen(n) == CHOOSE w \in 0..30 : n < 2^w /\ (w = 0 \/ 2^(w - 1) <= n)

\* binary digits of n, most significant first, no leading zero
BitsOfNat(n) == [i \in 1..BitLen(n) |-> (n \div 2^(BitLen(n) - i)) % 2]

\* value of a bit string (divide and conquer keeps the evaluation shallow)
RECURSIVE NatOfBits(_)
NatOfBits(b) ==
    IF Len(b) = 0 THEN 0
    ELSE IF Len(b) = 1 THEN b[1]
    ELSE LET h == Len(b) \div 2
         IN  NatOfBits(SubSeq(b, 1, h)) * 2^(Len(b) - h)
               + NatOfBits(SubSeq(b, h + 1, Len(b)))

Zeros(k) == [i \in 1..k |-> 0]

StripZeros(b) ==
    IF \A i \in 1..Len(b) : b[i] = 0 THEN <<>>
    ELSE SubSeq(b, CHOOSE i \in 1..Len(b) :
                      b[i] = 1 /\ \A j \in 1..(i - 1) : b[j] = 0, Len(b))

\* b + 1
IncBits(b) ==
    IF \A i \in 1..Len(b) : b[i] = 1 THEN <<1>> \o Zeros(Len(b))
    ELSE LET k == CHOOSE i \in 1..Len(b) :
                      b[i] = 0 /\ \A j \in (i + 1)..Len(b) : b[j] = 1
         IN  [i \in 1..Len(b) |-> IF i < k THEN b[i] ELSE IF i = k THEN 1 ELSE 0]

LimbBits == 8

\* the k-th 8-bit limb of b counted from the least significant end
LimbOf(b, k) ==
    LET hi == Len(b) - LimbBits * (k - 1)
        lo == IF hi - LimbBits + 1 < 1 THEN 1 ELSE hi - LimbBits + 1
    IN  NatOfBits(SubSeq(b, lo, hi))

BitsOfLimb(v) == [i \in 1..LimbBits |-> (v \div 2^(LimbBits - i)) % 2]

\* long division by the small integer d, limb by limb from the most
\* significant limb k downward; r is the remainder so far
RECURSIVE DivLimbs(_, _, _, _)
DivLimbs(b, d, k, r) ==
    IF k = 0 THEN [q |-> <<>>, r |-> r]
    ELSE LET cur  == r * 2^LimbBits + LimbOf(b, k)
             rest == DivLimbs(b, d, k - 1, cur % d)
         IN  [q |-> BitsOfLimb(cur \div d) \o rest.q, r |-> rest.r]

DivRem(b, d) == DivLimbs(b, d, (Len(b) + LimbBits - 1) \div LimbBits, 0)

\* schoolbook product of b and the small integer c, limb by limb from the
\* least significant limb k upward
RECURSIVE MulCarry(_, _, _, _)
MulCarry(b, c, k, carry) ==
    IF LimbBits * (k - 1) >= Len(b) THEN BitsOfNat(carry)
    ELSE LET t == LimbOf(b, k) * c + carry
         IN  MulCarry(b, c, k + 1, t \div 2^LimbBits) \o BitsOfLimb(t % 2^LimbBits)

MulSmall(b, c) == StripZeros(MulCarry(b, c, 1, 0))

MantBits == 53

\* round-to-nearest, ties-to-even, of bits * 2^exp (+ a sticky remainder)
RoundToFloat(bits, exp, sticky) ==
    LET b == StripZeros(bits)
        n == Len(b)
    IN  IF n = 0 THEN [mant |-> Zeros(MantBits), exp |-> 0]
        ELSE IF n <= MantBits
             THEN [mant |-> b \o Zeros(MantBits - n), exp |-> exp - (MantBits - n)]
        ELSE LET keep  == SubSeq(b, 1, MantBits)
                 rest  == SubSeq(b, MantBits + 1, n)
                 half  == rest[1] = 1
                 more  == sticky \/ \E i \in 2..Len(rest) : rest[i] = 1
                 up    == half /\ (more \/ keep[MantBits] = 1)
                 m     == IF up THEN IncBits(keep) ELSE keep
             IN  IF Len(m) > MantBits
                 THEN [mant |-> SubSeq(m, 1, MantBits), exp |-> exp + Len(rest) + 1]
                 ELSE [mant |-> m, exp |-> exp + Len(rest)]

\* float(n) for an int n
FloatOfInt(n) == RoundToFloat(BitsOfNat(n), 0, FALSE)

\* x / d for a float x and an int d (d converts exactly); the dividend is
\* extended by GuardBits so that the quotient keeps a rounding bit
GuardBits == 12

FloatDivInt(x, d) ==
    LET n  == x.mant \o Zeros(GuardBits)
        qr == DivRem(n, d)
    IN  RoundToFloat(qr.q, x.exp - GuardBits, qr.r # 0)

\* x * c for a float x and an int c (c converts exactly)
FloatMulInt(x, c) == RoundToFloat(MulSmall(x.mant, c), x.exp, FALSE)

\* int(x): truncation toward zero
IntOfFloat(x) ==
    IF x.exp >= 0 THEN NatOfBits(x.mant \o Zeros(x.exp))
    ELSE IF 0 - x.exp >= MantBits THEN 0
    ELSE NatOfBits(SubSeq(x.mant, 1, MantBits + x.exp))

-----------------------------------------------------------------------------
(* Results of a call: exc = "" is a normal return, anything else the name  *)
(* of the exception that propagates.                                       *)

Ok(v) == [exc |-> "", val |-> v]

Raise(e, v) == [exc |-> e, val |-> v]

\* the statements after a call: skipped when the call raised
Then(r, Rest(_)) == IF r.exc # "" THEN r ELSE Rest(r.val)

-----------------------------------------------------------------------------
(* getSimplifiedDevices: the normalizer *)

DeviceKeys == {"displayName", "category", "type", "units",
               "masterConnectionState", "id", "model",
               "actorIdentificationNumber"}

UnitKeys == {"displayName", "skills", "type", "id"}

\* the initial record with the connection state stored instead of compared
NewSimpleDevRawState(dev) ==
    IF ~(DeviceKeys \subseteq DOMAIN dev) THEN Raise("KeyError", EmptyDict)
    ELSE Ok([id          |-> dev.id,
             displayName |-> dev.displayName,
             present     |-> dev.masterConnectionState # "",
             model       |-> dev.model,
             identifier  |-> dev.actorIdentificationNumber])

\* lines 49-61: the record a device starts with; a missing key is a KeyError
NewSimpleDev(dev) ==
    IF ~(DeviceKeys \subseteq DOMAIN dev) THEN Raise("KeyError", EmptyDict)
    ELSE Ok([id          |-> dev.id,
             displayName |-> dev.displayName,
             present     |-> dev.masterConnectionState = "CONNECTED",
             model       |-> dev.model,
             identifier  |-> dev.actorIdentificationNumber])

\* lines 83-84
ThermostatMode(sd, skill) ==
    IF Has(skill, "mode") THEN Put(sd, "mode", skill.mode) ELSE sd

\* lines 87-92: state reporting of Fritz!OS 7.51/7.56
ThermostatState(sd, skill) ==
    IF Has(skill, "state") /\ Has(skill.state, "current")
    THEN LET cur == skill.state.current
             a   == Put(sd, "summerActive", IF cur = "SUMMER" THEN 1 ELSE 0)
             b   == Put(a, "holidyActive", IF cur = "HOLIDAY" THEN 1 ELSE 0)
         IN  Put(b, "windowOpen", IF cur = "WINDOW_OPEN" THEN 1 ELSE 0)
    ELSE sd

\* lines 98-107: state reporting of Fritz!OS 7.29/7.31
ThermostatLegacy(sd, skill) ==
    LET a == IF Has(skill, "summerActive")
             THEN Put(sd, "summerActive", skill.summerActive) ELSE sd
        b == IF Has(skill, "holidayActive")
             THEN Put(a, "holidayActive", skill.holidayActive) ELSE a
    IN  IF Has(skill, "temperatureDropDetection")
           /\ Has(skill.temperatureDropDetection, "isWindowOpen")
        THEN Put(b, "windowOpen", skill.temperatureDropDetection.isWindowOpen)
        ELSE b

\* a target that is stored only when the skill gives one
ThermostatTargetIfGiven(sd, skill) ==
    IF Has(skill, "targetTemp")
    THEN Put(sd, "targetTemperatureInDegC", skill.targetTemp) ELSE sd

\* lines 109-112
ThermostatTarget(sd, skill) ==
    Put(sd, "targetTemperatureInDegC",
        IF Has(skill, "targetTemp") THEN skill.targetTemp ELSE None)

\* lines 114-118: the last referenced skill with a reading wins; a
\* usedTempSensor without "skills" is a KeyError
ThermostatRef(sd, skill) ==
    IF ~Has(skill, "usedTempSensor") THEN Ok(sd)
    ELSE IF ~Has(skill.usedTempSensor, "skills") THEN Raise("KeyError", sd)
    ELSE LET refSkills == skill.usedTempSensor.skills
             with == {i \in 1..Len(refSkills) :
                         Has(refSkills[i], "currentInCelsius")}
         IN  IF with = {} THEN Ok(sd)
             ELSE Ok(Put(sd, "refTemperatureInDegC",
                         refSkills[CHOOSE i \in with : \A j \in with : j <= i]
                             .currentInCelsius))

\* the thermostat branch with the two state reportings in the other order
SmartHomeThermostatNewLast(sd, skill) ==
    ThermostatRef(
        ThermostatTarget(
            ThermostatState(
                ThermostatLegacy(ThermostatMode(sd, skill), skill), skill),
            skill),
        skill)

\* lines 81-118
SmartHomeThermostat(sd, skill) ==
    ThermostatRef(
        ThermostatTarget(
            ThermostatLegacy(
                ThermostatState(ThermostatMode(sd, skill), skill), skill),
            skill),
        skill)

\* lines 120-138: a listed sensor without its reading gives None
SensorReading(sd, skill, field, key) ==
    Ok(Put(sd, field, IF Has(skill, key) THEN skill[key] ELSE None))

\* line 152
EnergyInKWH(powerPerHour) == FloatDivInt(FloatOfInt(powerPerHour), 1000)

\* lines 143-155
SmartHomeMultimeter(sd, skill) ==
    LET a == IF Has(skill, "electricCurrentInAmpere")
             THEN Put(sd, "currentInAmp", skill.electricCurrentInAmpere) ELSE sd
        b == IF Has(skill, "powerConsumptionInWatt")
             THEN Put(a, "powerInWatt", skill.powerConsumptionInWatt) ELSE a
        c == IF Has(skill, "powerPerHour")
             THEN Put(b, "energyInKWH", EnergyInKWH(skill.powerPerHour)) ELSE b
    IN  Ok(IF Has(skill, "voltageInVolt")
           THEN Put(c, "voltageInVolt", skill.voltageInVolt) ELSE c)

\* lines 160-163
SmartHomeSwitch(sd, skill) ==
    Ok(IF Has(skill, "state")
       THEN Put(sd, "powerSwitchOn", skill.state = "ON") ELSE sd)

\* lines 76-165: the body of the skill loop
ApplySkill(sd, skill) ==
    IF ~Has(skill, "type") THEN Raise("KeyError", sd)
    ELSE CASE skill.type = "SmartHomeThermostat" -> SmartHomeThermostat(sd, skill)
           [] skill.type = "SmartHomeTemperatureSensor" ->
                SensorReading(sd, skill, "currentTemperatureInDegC", "currentInCelsius")
           [] skill.type = "SmartHomeHumiditySensor" ->
                SensorReading(sd, skill, "currentHumidityInPct", "currentInPercent")
           [] skill.type = "SmartHomeBattery" ->
                SensorReading(sd, skill, "batteryChargeLevelInPct", "chargeLevelInPercent")
           [] skill.type = "SmartHomeMultimeter" -> SmartHomeMultimeter(sd, skill)
           [] skill.type = "SmartHomeSocket" -> Ok(sd)
           [] skill.type = "SmartHomeSwitch" -> SmartHomeSwitch(sd, skill)
           [] OTHER -> Ok(sd)

\* lines 75-166 for one unit, from skill s on
RECURSIVE ApplySkills(_, _, _)
ApplySkills(sd, skills, s) ==
    IF s > Len(skills) THEN Ok(sd)
    ELSE Then(ApplySkill(sd, skills[s]),
              LAMBDA next : ApplySkills(next, skills, s + 1))

\* lines 66-167 for one device, from unit u on
RECURSIVE ApplyUnits(_, _, _)
ApplyUnits(sd, units, u) ==
    IF u > Len(units) THEN Ok(sd)
    ELSE IF ~(UnitKeys \subseteq DOMAIN units[u]) THEN Raise("KeyError", sd)
    ELSE Then(ApplySkills(sd, units[u].skills, 1),
              LAMBDA next : ApplyUnits(next, units, u + 1))

\* lines 49-167: one pass of the device loop, up to the store
NormalizeDevice(dev) ==
    Then(NewSimpleDev(dev), LAMBDA new : ApplyUnits(new, dev.units, 1))

(* simplifiedDevices is a Python dict: insertion-ordered, and assigning to *)
(* an existing key replaces the value in place.                            *)

DictKeys(d) == {d[i].key : i \in 1..Len(d)}

\* a store that adds an entry for every assignment
DictAppend(d, k, v) == Append(d, [key |-> k, value |-> v])

DictStore(d, k, v) ==
    IF k \in DictKeys(d)
    THEN [i \in 1..Len(d) |-> IF d[i].key = k THEN [key |-> k, value |-> v] ELSE d[i]]
    ELSE Append(d, [key |-> k, value |-> v])

DictValues(d) == [i \in 1..Len(d) |-> d[i].value]

\* the end of one pass of the device loop: an exception of the pass leaves
\* the function with the dict as it is, a finished record is stored
Stop(r, d) == IF r.exc # "" THEN Raise(r.exc, d) ELSE Ok(DictStore(d, r.val.id, r.val))

Skip(r, d) == IF r.exc # "" THEN Ok(d) ELSE Ok(DictStore(d, r.val.id, r.val))

\* a device loop that leaves out the device that raises and goes on
RECURSIVE NormalizeFromSkipping(_, _, _)
NormalizeFromSkipping(d, devs, i) ==
    IF i > Len(devs) THEN Ok(d)
    ELSE Then(Skip(NormalizeDevice(devs[i]), d),
              LAMBDA next : NormalizeFromSkipping(next, devs, i + 1))

\* lines 48-174 from device i on; d is the dict built so far
RECURSIVE NormalizeFrom(_, _, _)
NormalizeFrom(d, devs, i) ==
    IF i > Len(devs) THEN Ok(d)
    ELSE Then(Stop(NormalizeDevice(devs[i]), d),
              LAMBDA next : NormalizeFrom(next, devs, i + 1))

\* lines 40-47: the reply of postPageWithLogin, or its exception
RequestDevices(resp) ==
    IF resp.exc # "" THEN Raise(resp.exc, <<>>)
    ELSE IF ~Has(resp.data, "data") THEN Raise("KeyError", <<>>)
    ELSE IF ~Has(resp.data.data, "devices") THEN Raise("KeyError", <<>>)
    ELSE Ok(resp.data.data.devices)

\* lines 31-179
getSimplifiedDevices(resp) ==
    Then(RequestDevices(resp), LAMBDA devs : NormalizeFrom(<<>>, devs, 1))

-----------------------------------------------------------------------------
(* getDevices: the sorter *)

\* ord() of the characters the display names are made of
CodePoint == ("A" :> 65) @@ ("B" :> 66) @@ ("a" :> 97)

\* str < str of Python, on one-character names: by code point
StrLess(a, b) == CodePoint[a] < CodePoint[b]

\* an insertion that keeps the order of arrival
InsertLast(s, x) == Append(s, x)

\* sorted() is stable: x goes behind every element that is not greater
InsertSorted(s, x) ==
    LET k == Cardinality({i \in 1..Len(s) :
                             ~StrLess(x.displayName, s[i].displayName)})
    IN  SubSeq(s, 1, k) \o <<x>> \o SubSeq(s, k + 1, Len(s))

RECURSIVE SortedPrefix(_, _)
SortedPrefix(values, n) ==
    IF n = 0 THEN <<>>
    ELSE InsertSorted(SortedPrefix(values, n - 1), values[n])

\* line 326
SortedByDisplayName(values) == SortedPrefix(values, Len(values))

\* lines 323-328
getDevices(resp) ==
    Then(getSimplifiedDevices(resp),
         LAMBDA dict : Ok(SortedByDisplayName(DictValues(dict))))

-----------------------------------------------------------------------------
(* Standard output is a sequence of lines.  A line is a record:            *)
(*   kind  "multigraph" | "graph" | "field" | "blank" | "text" | "debug"   *)
(*   name  the graph name, the graph attribute or the metric prefix        *)
(*   id    the device id the name ends in, 0 when it ends in none          *)
(*   attr  for a field line, what follows the dot                          *)
(*   val   the text after the blank                                        *)
(*   args  the Python values the text is formatted from, when it is not    *)
(*         a plain text                                                    *)

Line(kind, name, id, attr, val, args) ==
    [kind |-> kind, name |-> name, id |-> id, attr |-> attr, val |-> val,
     args |-> args]

Blank == Line("blank", "", 0, "", "", <<>>)

\* print("\n")
Blank2 == <<Blank, Blank>>

Multigraph(name) == Line("multigraph", name, 0, "", "", <<>>)

MultigraphOf(name, id) == Line("multigraph", name, id, "", "", <<>>)

Graph(attr, val) == Line("graph", attr, 0, "", val, <<>>)

Value(name, id, val) == Line("field", name, id, "value", val, <<>>)

Field(name, id, attr, val) == Line("field", name, id, attr, val, <<>>)

Text(val) == Line("text", "", 0, "", val, <<>>)

Debug(name, val) == Line("debug", name, 0, "", val, <<>>)

RECURSIVE Flatten(_)
Flatten(ss) == IF ss = <<>> THEN <<>> ELSE Head(ss) \o Flatten(Tail(ss))

\* for dev in simpleDevices: the lines Body(dev) prints, in order
ForEach(simpleDevices, Body(_)) ==
    Flatten([i \in 1..Len(simpleDevices) |-> Body(simpleDevices[i])])

If(cond, lines) == IF cond THEN lines ELSE <<>>

\* "{}".format(int(x)) for an int flag
IntStr(x) == ToString(x)

\* "{}".format(int(x)) for a bool: True is 1
BoolIntStr(x) == IF x THEN "1" ELSE "0"

RECURSIVE PadLeft(_, _)
PadLeft(s, width) == IF Len(s) >= width THEN s ELSE PadLeft(" " \o s, width)

\* the conversion with the factor of watt-hours
EnergyInWattHours(energyInKWH) == IntOfFloat(FloatMulInt(energyInKWH, 3600))

\* line 303
EnergyInJoule(energyInKWH) == IntOfFloat(FloatMulInt(energyInKWH, 3600000))

-----------------------------------------------------------------------------
(* print_smart_home_measurements: the Metric Emitter, lines 186-320 *)

\* lines 190-195
MeasureTemperatures(simpleDevices) ==
    <<Multigraph("temperatures")>>
    \o ForEach(simpleDevices, LAMBDA dev :
         If(dev.present /\ Has(dev, "currentTemperatureInDegC"),
            <<Value("t", dev.id, dev.currentTemperatureInDegC)>>))

\* lines 198-203
MeasureHumidity(simpleDevices) ==
    <<Blank, Multigraph("humidity")>>
    \o ForEach(simpleDevices, LAMBDA dev :
         If(dev.present /\ Has(dev, "currentHumidityInPct"),
            <<Value("humidity", dev.id, dev.currentHumidityInPct)>>))

\* lines 208-214
MeasureTarget(simpleDevices) ==
    Blank2 \o <<Multigraph("temperatures_target")>>
    \o ForEach(simpleDevices, LAMBDA dev :
         If(dev.present /\ Has(dev, "targetTemperatureInDegC")
               /\ dev.targetTemperatureInDegC # None,
            <<Value("tsoll", dev.id, dev.targetTemperatureInDegC)>>))

\* lines 216-230
MeasureTemperatureDetail(simpleDevices) ==
    ForEach(simpleDevices, LAMBDA dev :
      If(dev.present,
         <<Blank, MultigraphOf("temperatures.t", dev.id)>>
         \o If(Has(dev, "refTemperatureInDegC"),
               <<Value("tref", dev.id, dev.refTemperatureInDegC)>>)
         \o If(Has(dev, "currentTemperatureInDegC"),
               <<Value("t", dev.id, dev.currentTemperatureInDegC)>>)
         \o If(Has(dev, "targetTemperatureInDegC")
                  /\ dev.targetTemperatureInDegC # None,
               <<Value("tsoll", dev.id, dev.targetTemperatureInDegC)>>)))

\* lines 234-240
MeasureModes(simpleDevices) ==
    Blank2 \o <<Multigraph("thermostat_modes")>>
    \o ForEach(simpleDevices, LAMBDA dev :
         If(dev.present /\ Has(dev, "windowOpen"),
            <<Value("windowopenmode", dev.id, IntStr(dev.windowOpen))>>))

\* lines 243-257
MeasureModeDetail(simpleDevices) ==
    ForEach(simpleDevices, LAMBDA dev :
      If(Has(dev, "windowOpen") \/ Has(dev, "summerActive")
            \/ Has(dev, "holidayActive"),
         Blank2 \o <<MultigraphOf("thermostat_modes.id", dev.id)>>
         \o If(Has(dev, "windowOpen"),
               <<Value("windowopenmode", dev.id, IntStr(dev.windowOpen))>>)
         \o If(Has(dev, "summerActive"),
               <<Value("summermode", dev.id, IntStr(dev.summerActive))>>)
         \o If(Has(dev, "holidayActive"),
               <<Value("holidaymode", dev.id, IntStr(dev.holidayActive))>>)))

\* lines 260-293 and 315-320: the groups of one field, gated on presence
MeasureField(simpleDevices, group, field) ==
    <<Blank, Multigraph(group)>>
    \o ForEach(simpleDevices, LAMBDA dev :
         If(dev.present /\ Has(dev, field),
            <<Value(group, dev.id,
                    IF field = "powerSwitchOn" THEN BoolIntStr(dev[field])
                    ELSE dev[field])>>))

\* lines 296-306
MeasurePowerAvg(simpleDevices) ==
    <<Blank, Multigraph("smarthome_powerAvg")>>
    \o ForEach(simpleDevices, LAMBDA dev :
         If(dev.present /\ Has(dev, "energyInKWH"),
            <<Value("smarthome_powerAvg", dev.id,
                    PadLeft(ToString(EnergyInJoule(dev.energyInKWH)), 15))>>))

\* lines 308-313: the float itself is formatted
MeasureEnergy(simpleDevices) ==
    <<Blank, Multigraph("energy")>>
    \o ForEach(simpleDevices, LAMBDA dev :
         If(dev.present /\ Has(dev, "energyInKWH"),
            <<Line("field", "energy", dev.id, "value", "", <<dev.energyInKWH>>)>>))

print_smart_home_measurements(simpleDevices) ==
    MeasureTemperatures(simpleDevices)
    \o MeasureHumidity(simpleDevices)
    \o MeasureTarget(simpleDevices)
    \o MeasureTemperatureDetail(simpleDevices)
    \o MeasureModes(simpleDevices)
    \o MeasureModeDetail(simpleDevices)
    \o MeasureField(simpleDevices, "battery", "batteryChargeLevelInPct")
    \o MeasureField(simpleDevices, "batterylow", "batteryLow")
    \o MeasureField(simpleDevices, "voltage", "voltageInVolt")
    \o MeasureField(simpleDevices, "smarthome_power", "powerInWatt")
    \o MeasurePowerAvg(simpleDevices)
    \o MeasureEnergy(simpleDevices)
    \o MeasureField(simpleDevices, "smarthome_powerswitch", "powerSwitchOn")

-----------------------------------------------------------------------------
(* print_config: the Metadata Emitter, lines 332-643 *)

GraphHead(name, title, vlabel) ==
    <<Multigraph(name), Graph("graph_title", title), Graph("graph_vlabel", vlabel),
      Graph("graph_category", "smart home"), Graph("graph_scale", "no")>>

GraphHeadOf(name, id, title, vlabel) ==
    <<MultigraphOf(name, id), Graph("graph_title", title),
      Graph("graph_vlabel", vlabel),
      Graph("graph_category", "smart home"), Graph("graph_scale", "no")>>

\* the lines name<id>.attr val of one metric, attrs being <<attr, val>> pairs
Block(name, id, attrs) ==
    [i \in 1..Len(attrs) |-> Field(name, id, attrs[i][1], attrs[i][2])]

Info(text, dev) == text \o " [" \o dev.model \o " - " \o dev.identifier \o "]"

\* lines 336-349
ConfigTemperatures(simpleDevices) ==
    GraphHead("temperatures",
              "AVM Fritz!Box SmartHome Temperatures (locally measured)",
              "degrees Celsius")
    \o <<Blank>>
    \o ForEach(simpleDevices, LAMBDA dev :
         If(Has(dev, "currentTemperatureInDegC"),
            Block("t", dev.id,
                  << <<"label", dev.displayName>>, <<"type", "GAUGE">>,
                     <<"graph", "LINE">>,
                     <<"info", Info("Locally measured temperature", dev)>> >>)))

\* lines 352-370
ConfigHumidity(simpleDevices) ==
    Blank2
    \o GraphHead("humidity", "AVM Fritz!Box SmartHome Humidity", "percent")
    \o Blank2
    \o ForEach(simpleDevices, LAMBDA dev :
         If(dev.present /\ Has(dev, "currentHumidityInPct"),
            Block("humidity", dev.id,
                  << <<"label", dev.displayName>>, <<"type", "GAUGE">>,
                     <<"graph", "LINE">>, <<"max", "100">>, <<"min", "0">>,
                     <<"warning", "30:70">>, <<"critical", "20:75">>,
                     <<"info", Info("Humidity", dev)>> >>)))

\* lines 375-389
ConfigTarget(simpleDevices) ==
    Blank2
    \o GraphHead("temperatures_target",
                 "AVM Fritz!Box SmartHome Target Temperatures", "degrees Celsius")
    \o <<Blank>>
    \o ForEach(simpleDevices, LAMBDA dev :
         If(Has(dev, "targetTemperatureInDegC"),
            Block("tsoll", dev.id,
                  << <<"label", dev.displayName>>, <<"type", "GAUGE">>,
                     <<"graph", "LINE">>,
                     <<"info", Info("Target temperature", dev)>> >>)))

\* lines 392-419
ConfigTemperatureDetail(simpleDevices) ==
    ForEach(simpleDevices, LAMBDA dev :
      Blank2
      \o GraphHeadOf("temperatures.t", dev.id,
                     "Temperatures for " \o dev.displayName, "degrees Celsius")
      \o Blank2
      \o If(Has(dev, "currentTemperatureInDegC"),
            Block("t", dev.id,
                  << <<"label", "measured locally">>, <<"type", "GAUGE">>,
                     <<"graph", "LINE">>, <<"warning", "15:30">>,
                     <<"critical", "10:35">>,
                     <<"info", Info("Locally measured temperature", dev)>> >>))
      \o If(Has(dev, "refTemperatureInDegC"),
            Block("tref", dev.id,
                  << <<"label", "measured ref.">>, <<"type", "GAUGE">>,
                     <<"graph", "LINE">>,
                     <<"info", Info("Measured reference temperature", dev)>> >>))
      \o If(Has(dev, "targetTemperatureInDegC"),
            Block("tsoll", dev.id,
                  << <<"label", "target">>, <<"type", "GAUGE">>,
                     <<"graph", "LINE">>,
                     <<"info", Info("Target temperature", dev)>> >>)))

ModeAttrs(label, info, dev) ==
    << <<"label", label>>, <<"type", "GAUGE">>, <<"graph", "LINE">>,
       <<"max", "1">>, <<"min", "0">>, <<"info", Info(info, dev)>> >>

\* lines 422-438
ConfigModes(simpleDevices) ==
    Blank2
    \o GraphHead("thermostat_modes",
                 "AVM Fritz!Box SmartHome Thermostat Modes", "on/off")
    \o Blank2
    \o ForEach(simpleDevices, LAMBDA dev :
         If(dev.present /\ Has(dev, "windowOpen"),
            Block("windowopenmode", dev.id,
                  ModeAttrs(dev.displayName, "Window Open Mode", dev))))

\* lines 441-475
ConfigModeDetail(simpleDevices) ==
    ForEach(simpleDevices, LAMBDA dev :
      If(Has(dev, "windowOpen") \/ Has(dev, "summerActive")
            \/ Has(dev, "holidayActive"),
         Blank2
         \o GraphHeadOf("thermostat_modes.id", dev.id,
                        "AVM Fritz!Box SmartHome Modes for " \o dev.displayName,
                        "on/off")
         \o Blank2
         \o If(Has(dev, "windowOpen"),
               Block("windowopenmode", dev.id,
                     ModeAttrs("Window Open", "Window Open Mode", dev)))
         \o If(Has(dev, "summerActive"),
               Block("summermode", dev.id,
                     ModeAttrs("Summer Mode", "Summer Mode", dev)))
         \o If(Has(dev, "holidayActive"),
               Block("holidaymode", dev.id,
                     ModeAttrs("Holiday Mode", "Holiday Mode", dev)))))

\* lines 480-538 and 624-639: the groups of one field, gated on presence;
\* attrs are the lines between .graph and .info
ConfigField(simpleDevices, group, field, title, vlabel, attrs, info) ==
    Blank2
    \o GraphHead(group, title, vlabel)
    \o Blank2
    \o ForEach(simpleDevices, LAMBDA dev :
         If(dev.present /\ Has(dev, field),
            Block(group, dev.id,
                  << <<"label", dev.displayName>>, <<"type", "GAUGE">>,
                     <<"graph", "LINE">> >>
                  \o attrs \o << <<"info", Info(info, dev)>> >>)))

RECURSIVE Join(_, _)
Join(strs, sep) ==
    IF strs = <<>> THEN ""
    ELSE IF Len(strs) = 1 THEN strs[1]
    ELSE strs[1] \o sep \o Join(Tail(strs), sep)

\* s * n of Python: empty when n <= 0
RECURSIVE Repeat(_, _)
Repeat(s, n) == IF n <= 0 THEN "" ELSE s \o Repeat(s, n - 1)

\* the list of every device that carries the field, connected or not
IdListAll(simpleDevices, group, field) ==
    ForEach(simpleDevices, LAMBDA dev :
         If(Has(dev, field), <<[name |-> group, id |-> dev.id]>>))

\* lines 549, 580, 605: the metrics the total is made of
IdList(simpleDevices, group, field) ==
    ForEach(simpleDevices, LAMBDA dev :
         If(dev.present /\ Has(dev, field), <<[name |-> group, id |-> dev.id]>>))

IdNames(ids) == [i \in 1..Len(ids) |-> ids[i].name \o ToString(ids[i].id)]

\* lines 542-620: the groups that carry a total
ConfigTotal(simpleDevices, group, field, title, vlabel, type, attrs, info) ==
    LET ids == IdList(simpleDevices, group, field)
    IN  Blank2
        \o GraphHead(group, title, vlabel)
        \o <<Line("graph", "graph_order", 0, "",
                  "total_" \o group \o " " \o Join(IdNames(ids), " "), ids)>>
        \o Blank2
        \o ForEach(simpleDevices, LAMBDA dev :
             If(dev.present /\ Has(dev, field),
                Block(group, dev.id,
                      << <<"label", dev.displayName>>, <<"type", type>>,
                         <<"graph", "LINE">> >>
                      \o attrs \o << <<"info", Info(info, dev)>> >>)))
        \o <<Field("total_" \o group, 0, "label", "total"),
             Line("field", "total_" \o group, 0, "cdef",
                  Join(IdNames(ids), ",") \o Repeat(",ADDNAN", Len(ids) - 1), ids),
             Field("total_" \o group, 0, "min", "0")>>

\* the override line for every host_name that is set, the empty one too
ConfigHostNameIfSet(env) ==
    If(Has(env, "host_name"),
       <<Line("text", "host_name", 0, "", env.host_name, <<>>)>>)

\* lines 642-643
ConfigHostName(env) ==
    If(Has(env, "host_name") /\ env.host_name # "",
       <<Line("text", "host_name", 0, "", env.host_name, <<>>)>>)

print_config(simpleDevices, env) ==
    ConfigTemperatures(simpleDevices)
    \o ConfigHumidity(simpleDevices)
    \o ConfigTarget(simpleDevices)
    \o ConfigTemperatureDetail(simpleDevices)
    \o ConfigModes(simpleDevices)
    \o ConfigModeDetail(simpleDevices)
    \o ConfigField(simpleDevices, "battery", "batteryChargeLevelInPct",
                   "AVM Fritz!Box SmartHome Battery", "percent",
                   << <<"max", "100">>, <<"min", "0">>, <<"warning", "30:110">>,
                      <<"critical", "10:120">> >>, "Battery")
    \o ConfigField(simpleDevices, "batterylow", "batteryLow",
                   "AVM Fritz!Box SmartHome Battery Low Warning", "ok/warning",
                   << <<"max", "1">>, <<"min", "0">>, <<"warning", "0.5">>,
                      <<"critical", "1">> >>, "Battery Low Warning")
    \o ConfigField(simpleDevices, "voltage", "voltageInVolt",
                   "AVM Fritz!Box SmartHome Voltage", "Volt",
                   << <<"min", "0">>, <<"warning", "220:240">>,
                      <<"critical", "210:245">> >>, "Voltage")
    \o ConfigTotal(simpleDevices, "smarthome_power", "powerInWatt",
                   "AVM Fritz!Box SmartHome Power", "Watt", "GAUGE",
                   << <<"min", "0">>, <<"warning", "1500">>,
                      <<"critical", "2000">> >>, "Power")
    \o ConfigTotal(simpleDevices, "smarthome_powerAvg", "energyInKWH",
                   "AVM Fritz!Box SmartHome Power Average (from Energy)", "W",
                   "DERIVE", << <<"min", "0">> >>, "Power Average")
    \o ConfigTotal(simpleDevices, "energy", "energyInKWH",
                   "AVM Fritz!Box SmartHome Energy", "kWh", "GAUGE",
                   << <<"min", "0">> >>, "Energy")
    \o ConfigField(simpleDevices, "smarthome_powerswitch", "powerSwitchOn",
                   "AVM Fritz!Box SmartHome Power Switch", "On/Off",
                   << <<"min", "0">>, <<"max", "1">> >>, "On/Off")
    \o ConfigHostName(env)

-----------------------------------------------------------------------------
(* The trace getSimplifiedDevices(debug=True) prints, up to the exception *)

\* the trace goes on after a call that returned
TraceOn(r, Rest(_)) == IF r.exc # "" THEN <<>> ELSE Rest(r.val)

\* line 173
TraceRecord(r) ==
    If(r.exc = "", <<Line("debug", "pprint", r.val.id, "", "simpleDev", <<r.val>>)>>)

\* line 177
TraceDict(r) ==
    If(r.exc = "", <<Line("debug", "pprint", 0, "", "simplifiedDevices", <<r.val>>)>>)

RECURSIVE SkillsTrace(_, _, _)
SkillsTrace(sd, skills, s) ==
    IF s > Len(skills) THEN <<>>
    ELSE IF ~Has(skills[s], "type") THEN <<>>
    ELSE <<Debug("skill", skills[s].type)>>               \* line 79
         \o TraceOn(ApplySkill(sd, skills[s]),
                    LAMBDA next : SkillsTrace(next, skills, s + 1))

RECURSIVE UnitsTrace(_, _, _)
UnitsTrace(sd, units, u) ==
    IF u > Len(units) THEN <<>>
    ELSE IF ~(UnitKeys \subseteq DOMAIN units[u]) THEN <<>>
    ELSE <<Debug("unit", units[u].displayName)>>          \* line 73
         \o SkillsTrace(sd, units[u].skills, 1)
         \o TraceOn(ApplySkills(sd, units[u].skills, 1),
                    LAMBDA next : UnitsTrace(next, units, u + 1))

DeviceTrace(dev) ==
    TraceOn(NewSimpleDev(dev),
            LAMBDA new : <<Debug("device", dev.displayName)>>     \* line 64
                         \o UnitsTrace(new, dev.units, 1)
                         \o TraceRecord(NormalizeDevice(dev)))

RECURSIVE DevicesTrace(_, _)
DevicesTrace(devs, i) ==
    IF i > Len(devs) THEN <<>>
    ELSE DeviceTrace(devs[i])
         \o TraceOn(NormalizeDevice(devs[i]),
                    LAMBDA stored : DevicesTrace(devs, i + 1))

DebugTrace(resp) ==
    <<Debug("requesting", "requesting data through postPageWithLogin")>>
    \o If(resp.exc = "",                                   \* line 43
          <<Line("debug", "pprint", 0, "", "data", <<resp.data>>)>>)
    \o TraceOn(RequestDevices(resp), LAMBDA devs : DevicesTrace(devs, 1))
    \o TraceDict(getSimplifiedDevices(resp))

-----------------------------------------------------------------------------
(* The raw JSON the router may send *)

MaxDevices == 3

MaxSkills == 2

\* an optional value: <<>> when the key is absent, <<v>> when it is v
Optional(S) == {<<>>} \cup {<<v>> : v \in S}

KeyIf(k, opt) == IF opt = <<>> THEN EmptyDict ELSE (k :> opt[1])

Without(d, k) == [y \in (DOMAIN d) \ {k} |-> d[y]]

\* the nested state record: "-" absent, "{}" without current, else current
StateOf(code) ==
    IF code = "-" THEN EmptyDict
    ELSE IF code = "{}" THEN ("state" :> EmptyDict)
    ELSE ("state" :> [current |-> code])

\* temperatureDropDetection: "-" absent, "{}" without isWindowOpen
DropOf(code) ==
    IF code = "-" THEN EmptyDict
    ELSE IF code = "{}" THEN ("temperatureDropDetection" :> EmptyDict)
    ELSE ("temperatureDropDetection" :> [isWindowOpen |-> IF code = "1" THEN 1 ELSE 0])

\* usedTempSensor: "-" absent, "{}" without skills, else its skills list
SensorOf(code) ==
    IF code = "-" THEN EmptyDict
    ELSE IF code = "{}" THEN ("usedTempSensor" :> EmptyDict)
    ELSE ("usedTempSensor" :>
            [skills |->
               CASE code = "[]"       -> <<>>
                 [] code = "[{}]"     -> <<EmptyDict>>
                 [] code = "[19.5]"   -> <<[currentInCelsius |-> "19.5"]>>
                 [] code = "[19.5,{}]" -> <<[currentInCelsius |-> "19.5"], EmptyDict>>
                 [] OTHER             -> <<[currentInCelsius |-> "19.5"],
                                           [currentInCelsius |-> "22.0"]>>])

StateCodes == {"-", "{}", "SUMMER", "HOLIDAY", "WINDOW_OPEN", "HEATING"}

DropCodes == {"-", "{}", "0", "1"}

SensorCodes == {"-", "{}", "[]", "[{}]", "[19.5]", "[19.5,{}]", "[19.5,22.0]"}

Thermostat(mode, state, summer, holiday, drop, target, sensor) ==
    ("type" :> "SmartHomeThermostat") @@ KeyIf("mode", mode) @@ StateOf(state)
    @@ KeyIf("summerActive", summer) @@ KeyIf("holidayActive", holiday)
    @@ DropOf(drop) @@ KeyIf("targetTemp", target) @@ SensorOf(sensor)

Sensor(type, key, reading) == ("type" :> type) @@ KeyIf(key, reading)

Multimeter(current, power, perHour, voltage) ==
    ("type" :> "SmartHomeMultimeter")
    @@ KeyIf("electricCurrentInAmpere", current)
    @@ KeyIf("powerConsumptionInWatt", power)
    @@ KeyIf("powerPerHour", perHour) @@ KeyIf("voltageInVolt", voltage)

PowerPerHours == {0, 9, 500, 1000, 123457}

Switch(state) == ("type" :> "SmartHomeSwitch") @@ KeyIf("state", state)

Unit(skills) ==
    [displayName |-> "unit", skills |-> skills, type |-> "UNIT", id |-> 0]

RawDevice(id, name, connected, units) ==
    [displayName |-> name, category |-> "DEVICE", type |-> "DECT",
     units |-> units, masterConnectionState |-> connected, id |-> id,
     model |-> "FRITZ!DECT", actorIdentificationNumber |-> "AIN" \o ToString(id)]

Reply(devs) == [exc |-> "", data |-> [data |-> [devices |-> devs]]]

\* replies that are no device list at all
BadReplies ==
    <<[exc |-> "ConnectionError", data |-> EmptyDict],
      [exc |-> "", data |-> EmptyDict],
      [exc |-> "", data |-> [data |-> EmptyDict]]>>

\* the devices the dispatcher runs are made of
DevicePool ==
    LET a == RawDevice(1, "A", "CONNECTED",
               <<Unit(<<Thermostat(<<"HEAT">>, "WINDOW_OPEN", <<>>, <<>>, "-",
                                   <<"21.5">>, "[19.5]")>>),
                 Unit(<<Sensor("SmartHomeTemperatureSensor", "currentInCelsius",
                               <<"20.8">>)>>)>>)
        b == RawDevice(2, "B", "CONNECTED",
               <<Unit(<<Multimeter(<<"0.2">>, <<"45.2">>, <<1000>>, <<"230.1">>),
                        [type |-> "SmartHomeSocket"], Switch(<<"ON">>)>>)>>)
        c == RawDevice(3, "a", "DISCONNECTED",
               <<Unit(<<Thermostat(<<>>, "-", <<1>>, <<0>>, "1", <<>>, "-"),
                        Sensor("SmartHomeTemperatureSensor", "currentInCelsius",
                               <<"18.0">>),
                        Sensor("SmartHomeHumiditySensor", "currentInPercent",
                               <<"55">>),
                        Sensor("SmartHomeBattery", "chargeLevelInPercent",
                               <<"80">>)>>),
                 Unit(<<Multimeter(<<>>, <<"3.0">>, <<500>>, <<"229.0">>),
                        Switch(<<"OFF">>)>>)>>)
        d == RawDevice(1, "B", "CONNECTED",
               <<Unit(<<Sensor("SmartHomeHumiditySensor", "currentInPercent",
                               <<"48">>),
                        Sensor("SmartHomeBattery", "chargeLevelInPercent", <<>>),
                        Sensor("SmartHomeTemperatureSensor", "currentInCelsius",
                               <<>>),
                        Multimeter(<<>>, <<>>, <<9>>, <<>>)>>)>>)
        e == RawDevice(4, "A", "CONNECTED",
               <<Unit(<<Thermostat(<<>>, "HOLIDAY", <<>>, <<>>, "-", <<>>, "-"),
                        Multimeter(<<>>, <<"12.0">>, <<500>>, <<>>),
                        Switch(<<"OFF">>)>>)>>)
        f == RawDevice(2, "a", "DISCONNECTED", <<>>)
    IN  <<a, b, c, d, e, f, Without(b, "id"), Without(a, "displayName")>>

Environs ==
    {EmptyDict,
     [MUNIN_CAP_DIRTYCONFIG |-> "1"],
     [MUNIN_CAP_DIRTYCONFIG |-> "0", host_name |-> "munin"],
     [MUNIN_CAP_DIRTYCONFIG |-> "1", host_name |-> "munin"],
     [host_name |-> ""]}

Argvs == {<<>>, <<"fetch">>, <<"config">>, <<"autoconf">>, <<"debug">>,
          <<"bogus">>, <<"config", "fetch">>}

SeqsUpTo(S, n) == UNION {[1..k -> S] : k \in 0..n}

-----------------------------------------------------------------------------
(* __main__, lines 646-665 *)

IsMode(mode) == Len(argv) = 1 /\ argv[1] = mode

IsFetch == Len(argv) = 0 \/ IsMode("fetch")

Init ==
    /\ argv \in Argvs
    /\ environ \in (IF argv = <<"config">> THEN Environs ELSE {EmptyDict})
    /\ \/ \E ix \in SeqsUpTo(1..Len(DevicePool), MaxDevices) :
            response = Reply([i \in 1..Len(ix) |-> DevicePool[ix[i]]])
       \/ \E i \in 1..Len(BadReplies) : response = BadReplies[i]
    /\ pc = "main"
    /\ simplifiedDevices = <<>>
    /\ devices = <<>>
    /\ stdout = <<>>
    /\ stderr = <<>>
    /\ exitStatus = 0
    /\ fetches = 0
    /\ devIdx = 0 /\ unitIdx = 0 /\ skillIdx = 0
    /\ simpleDev = EmptyDict

Loops == <<devIdx, unitIdx, skillIdx, simpleDev>>

\* an exception nobody catches: the traceback and exit status 1
Uncaught(exc) ==
    /\ pc' = "exit"
    /\ exitStatus' = 1
    /\ stderr' = Append(stderr, "Traceback: " \o exc)

Exit(status) == pc' = "exit" /\ exitStatus' = status

\* the call getDevices(debug) of lines 648, 657 and 662; the dict is what
\* getSimplifiedDevices had built when it returned or raised
Returns(r, next, failed) ==
    IF r.exc = ""
    THEN devices' = r.val /\ pc' = next /\ UNCHANGED <<stderr, exitStatus>>
    ELSE /\ UNCHANGED devices
         /\ IF failed = "" THEN Uncaught(r.exc)
            ELSE pc' = failed /\ UNCHANGED <<stderr, exitStatus>>

CallGetDevices(debug, next, failed) ==
    /\ fetches' = fetches + 1
    /\ simplifiedDevices' = getSimplifiedDevices(response).val
    /\ stdout' = stdout \o If(debug, DebugTrace(response))
    /\ Returns(getDevices(response), next, failed)
    /\ UNCHANGED <<argv, environ, response, Loops>>

\* line 648
ConfigGetDevices ==
    /\ pc = "main" /\ IsMode("config")
    /\ CallGetDevices(FALSE, "config", "")

\* line 649
ConfigPrint ==
    /\ pc = "config"
    /\ stdout' = stdout \o print_config(devices, environ)
    /\ pc' = "configured"
    /\ UNCHANGED <<argv, environ, response, simplifiedDevices, devices,
                   stderr, exitStatus, fetches, Loops>>

DirtyConfig ==
    Has(environ, "MUNIN_CAP_DIRTYCONFIG") /\ environ.MUNIN_CAP_DIRTYCONFIG = "1"

\* lines 650-652
ConfigDirty ==
    /\ pc = "configured" /\ DirtyConfig
    /\ stdout' = stdout \o <<Blank>> \o print_smart_home_measurements(devices)
    /\ Exit(0)
    /\ UNCHANGED <<argv, environ, response, simplifiedDevices, devices,
                   stderr, fetches, Loops>>

ConfigEnd ==
    /\ pc = "configured" /\ ~DirtyConfig
    /\ Exit(0)
    /\ UNCHANGED <<argv, environ, response, simplifiedDevices, devices,
                   stdout, stderr, fetches, Loops>>

\* lines 654-655
Autoconf ==
    /\ pc = "main" /\ IsMode("autoconf")
    /\ stdout' = Append(stdout, Text("yes"))
    /\ Exit(0)
    /\ UNCHANGED <<argv, environ, response, simplifiedDevices, devices,
                   stderr, fetches, Loops>>

\* line 657
DebugGetDevices ==
    /\ pc = "main" /\ IsMode("debug")
    /\ CallGetDevices(TRUE, "debug", "")

\* line 662
FetchGetDevices ==
    /\ pc = "main" /\ IsFetch
    /\ CallGetDevices(FALSE, "fetch", "except")

\* lines 658 and 663
PrintMeasurements ==
    /\ pc \in {"debug", "fetch"}
    /\ stdout' = stdout \o print_smart_home_measurements(devices)
    /\ Exit(0)
    /\ UNCHANGED <<argv, environ, response, simplifiedDevices, devices,
                   stderr, fetches, Loops>>

\* a default mode without the except clause: the exception goes up
FetchUncaught ==
    /\ pc = "except"
    /\ Uncaught("Exception")
    /\ UNCHANGED <<argv, environ, response, simplifiedDevices, devices,
                   stdout, fetches, Loops>>

\* lines 664-665: sys.exit(message) writes the message and exits with 1
FetchExcept ==
    /\ pc = "except"
    /\ stderr' = Append(stderr, "Couldn't retrieve fritzbox smarthome data")
    /\ Exit(1)
    /\ UNCHANGED <<argv, environ, response, simplifiedDevices, devices,
                   stdout, fetches, Loops>>

\* no branch of lines 647-659 matches
NoMode ==
    /\ pc = "main"
    /\ ~IsMode("config") /\ ~IsMode("autoconf") /\ ~IsMode("debug") /\ ~IsFetch
    /\ Exit(0)
    /\ UNCHANGED <<argv, environ, response, simplifiedDevices, devices,
                   stdout, stderr, fetches, Loops>>

Next ==
    \/ ConfigGetDevices
    \/ ConfigPrint
    \/ ConfigDirty
    \/ ConfigEnd
    \/ Autoconf
    \/ DebugGetDevices
    \/ FetchGetDevices
    \/ PrintMeasurements
    \/ FetchExcept
    \/ NoMode

Spec == Init /\ [][Next]_vars

-----------------------------------------------------------------------------
(* The fetch run again, with getSimplifiedDevices taken one loop step at a *)
(* time: pc is "request" before line 40, "devices", "units" and "skills"   *)
(* at the head of the loops of lines 48, 66 and 75, and the indices name   *)
(* the device, unit and skill handled last.                                *)

\* skills that units of several skills are made of
SkillPool ==
    <<Thermostat(<<>>, "HOLIDAY", <<1>>, <<>>, "-", <<"21.5">>, "-"),
      Thermostat(<<>>, "WINDOW_OPEN", <<>>, <<>>, "-", <<>>, "-"),
      Sensor("SmartHomeTemperatureSensor", "currentInCelsius", <<>>),
      Sensor("SmartHomeTemperatureSensor", "currentInCelsius", <<"20.8">>),
      Sensor("SmartHomeHumiditySensor", "currentInPercent", <<"55">>),
      Sensor("SmartHomeBattery", "chargeLevelInPercent", <<"80">>),
      Multimeter(<<>>, <<"45.2">>, <<500>>, <<>>),
      [type |-> "SmartHomeSocket"],
      Switch(<<"ON">>),
      [type |-> "SmartHomeBlind"]>>

\* the skills split into units: before and after position cut
UnitsOf(skills, cut) ==
    IF cut = 0 THEN <<Unit(skills)>>
    ELSE <<Unit(SubSeq(skills, 1, cut)), Unit(SubSeq(skills, cut + 1, Len(skills)))>>

ConnectionStates == {"CONNECTED", "DISCONNECTED"}

OneDevice(connected, units) == Reply(<<RawDevice(1, "A", connected, units)>>)

\* replies in which an always-present attribute is missing somewhere
MalformedReplies ==
    LET skill == Sensor("SmartHomeTemperatureSensor", "currentInCelsius", <<"20.8">>)
        good  == RawDevice(1, "A", "CONNECTED", <<Unit(<<skill>>)>>)
    IN  BadReplies
        \o <<Reply(<<good, Without(good, "id")>>),
             Reply(<<good, Without(good, "displayName")>>),
             Reply(<<Without(good, "units")>>),
             Reply(<<Without(good, "masterConnectionState")>>),
             Reply(<<Without(good, "model")>>),
             Reply(<<Without(good, "actorIdentificationNumber")>>),
             Reply(<<Without(good, "category")>>),
             Reply(<<Without(good, "type")>>),
             Reply(<<RawDevice(1, "A", "CONNECTED",
                               <<Unit(<<skill>>), Without(Unit(<<skill>>), "skills")>>)>>),
             Reply(<<RawDevice(1, "A", "CONNECTED",
                               <<Unit(<<skill, Without(skill, "type")>>)>>)>>)>>

InitSteps ==
    /\ argv = <<"fetch">>
    /\ environ = EmptyDict
    /\ \/ \E connected \in ConnectionStates, mode \in Optional({"HEAT"}),
            state \in StateCodes, summer \in Optional({0, 1}),
            holiday \in Optional({0, 1}), drop \in DropCodes,
            target \in Optional({"21.5"}), sensor \in SensorCodes :
            response = OneDevice(connected,
                         <<Unit(<<Thermostat(mode, state, summer, holiday, drop,
                                             target, sensor)>>)>>)
       \/ \E connected \in ConnectionStates, current \in Optional({"0.2"}),
            power \in Optional({"45.2"}), perHour \in Optional(PowerPerHours),
            voltage \in Optional({"230.1"}) :
            response = OneDevice(connected,
                         <<Unit(<<Multimeter(current, power, perHour, voltage)>>)>>)
       \/ \E connected \in ConnectionStates,
            ix \in SeqsUpTo(1..Len(SkillPool), MaxSkills) :
            \E cut \in 0..Len(ix) :
               response = OneDevice(connected,
                            UnitsOf([i \in 1..Len(ix) |-> SkillPool[ix[i]]], cut))
       \/ \E connected \in ConnectionStates :
            response = OneDevice(connected, <<>>)
       \/ \E i \in 1..Len(MalformedReplies) : response = MalformedReplies[i]
    /\ pc = "request"
    /\ simplifiedDevices = <<>>
    /\ devices = <<>>
    /\ stdout = <<>>
    /\ stderr = <<>>
    /\ exitStatus = 0
    /\ fetches = 0
    /\ devIdx = 0 /\ unitIdx = 0 /\ skillIdx = 0
    /\ simpleDev = EmptyDict

RawDevices == response.data.data.devices

RawUnits == RawDevices[devIdx].units

RawSkills == RawUnits[unitIdx].skills

Rest == <<argv, environ, response, devices, stdout, stderr, exitStatus>>

\* lines 40-47
StepRequest ==
    /\ pc = "request"
    /\ fetches' = fetches + 1
    /\ pc' = IF RequestDevices(response).exc = "" THEN "devices" ELSE "except"
    /\ simplifiedDevices' = <<>>
    /\ UNCHANGED <<Rest, Loops>>

\* lines 48-61
StepDevice ==
    /\ pc = "devices" /\ devIdx < Len(RawDevices)
    /\ LET r == NewSimpleDev(RawDevices[devIdx + 1])
       IN  /\ devIdx' = devIdx + 1
           /\ unitIdx' = 0 /\ skillIdx' = 0
           /\ IF r.exc = "" THEN simpleDev' = r.val /\ pc' = "units"
              ELSE UNCHANGED simpleDev /\ pc' = "except"
    /\ UNCHANGED <<Rest, simplifiedDevices, fetches>>

\* lines 66-70
StepUnit ==
    /\ pc = "units" /\ unitIdx < Len(RawUnits)
    /\ unitIdx' = unitIdx + 1 /\ skillIdx' = 0
    /\ pc' = IF ~(UnitKeys \subseteq DOMAIN RawUnits[unitIdx + 1]) THEN "except"
             ELSE IF Len(RawUnits[unitIdx + 1].skills) = 0 THEN "units"
             ELSE "skills"
    /\ UNCHANGED <<Rest, simplifiedDevices, fetches, devIdx, simpleDev>>

\* lines 75-165
StepSkill ==
    /\ pc = "skills" /\ skillIdx < Len(RawSkills)
    /\ LET r == ApplySkill(simpleDev, RawSkills[skillIdx + 1])
       IN  /\ skillIdx' = skillIdx + 1
           /\ simpleDev' = r.val
           /\ pc' = IF r.exc # "" THEN "except"
                    ELSE IF skillIdx + 1 = Len(RawSkills) THEN "units"
                    ELSE "skills"
    /\ UNCHANGED <<Rest, simplifiedDevices, fetches, devIdx, unitIdx>>

\* line 170
StepStore ==
    /\ pc = "units" /\ unitIdx = Len(RawUnits)
    /\ simplifiedDevices' = DictStore(simplifiedDevices, simpleDev.id, simpleDev)
    /\ pc' = "devices"
    /\ UNCHANGED <<Rest, fetches, Loops>>

\* lines 179 and 325-328, back in the try block of line 662
StepReturn ==
    /\ pc = "devices" /\ devIdx = Len(RawDevices)
    /\ devices' = SortedByDisplayName(DictValues(simplifiedDevices))
    /\ pc' = "fetch"
    /\ UNCHANGED <<argv, environ, response, simplifiedDevices, stdout, stderr,
                   exitStatus, fetches, Loops>>

NextSteps ==
    \/ StepRequest
    \/ StepDevice
    \/ StepUnit
    \/ StepSkill
    \/ StepStore
    \/ StepReturn
    \/ PrintMeasurements
    \/ FetchExcept

SpecSteps == InitSteps /\ [][NextSteps]_vars

-----------------------------------------------------------------------------
(* Properties of the normalizer, stated on the stepwise run SpecSteps *)

\* the skill loop has just handled RawSkills[skillIdx] without raising
JustApplied ==
    /\ pc \in {"skills", "units"}
    /\ devIdx >= 1 /\ unitIdx >= 1 /\ skillIdx >= 1

IsThermostat(skill) == Has(skill, "type") /\ skill.type = "SmartHomeThermostat"

HasCurrent(skill) == Has(skill, "state") /\ Has(skill.state, "current")

HasLegacyWindow(skill) ==
    /\ Has(skill, "temperatureDropDetection")
    /\ Has(skill.temperatureDropDetection, "isWindowOpen")

NoLegacy(skill) ==
    /\ ~Has(skill, "summerActive") /\ ~Has(skill, "holidayActive")
    /\ ~HasLegacyWindow(skill)

Flag(b) == IF b THEN 1 ELSE 0

\* C2: after a thermostat skill with state.current and no legacy field has
\* been handled, the record has windowOpen, summerActive and holidayActive,
\* each 1 exactly when state.current names it (WINDOW_OPEN gives 1, 0, 0).
C2_StateSetsAllThreeFlags ==
    (JustApplied /\ IsThermostat(RawSkills[skillIdx])
       /\ HasCurrent(RawSkills[skillIdx]) /\ NoLegacy(RawSkills[skillIdx]))
    => LET cur == RawSkills[skillIdx].state.current
       IN  /\ Has(simpleDev, "windowOpen")
           /\ Has(simpleDev, "summerActive")
           /\ Has(simpleDev, "holidayActive")
           /\ simpleDev.windowOpen = Flag(cur = "WINDOW_OPEN")
           /\ simpleDev.summerActive = Flag(cur = "SUMMER")
           /\ simpleDev.holidayActive = Flag(cur = "HOLIDAY")

\* C5: after a thermostat skill with state.current and a legacy field has
\* been handled, each flag whose legacy field is present has the legacy
\* value, whatever state.current is.
C5_LegacyOverwritesState ==
    (JustApplied /\ IsThermostat(RawSkills[skillIdx])
       /\ HasCurrent(RawSkills[skillIdx]))
    => LET skill == RawSkills[skillIdx]
       IN  /\ Has(skill, "summerActive")
                => simpleDev.summerActive = skill.summerActive
           /\ Has(skill, "holidayActive")
                => simpleDev.holidayActive = skill.holidayActive
           /\ HasLegacyWindow(skill)
                => simpleDev.windowOpen
                     = skill.temperatureDropDetection.isWindowOpen

\* legacy summerActive = 1 together with state.current = HOLIDAY was handled
C5_Witness ==
    /\ JustApplied /\ IsThermostat(RawSkills[skillIdx])
    /\ HasCurrent(RawSkills[skillIdx])
    /\ RawSkills[skillIdx].state.current = "HOLIDAY"
    /\ Has(RawSkills[skillIdx], "summerActive")
    /\ RawSkills[skillIdx].summerActive = 1
    /\ simpleDev.summerActive = 1

RelevantTypes ==
    {"SmartHomeThermostat", "SmartHomeTemperatureSensor",
     "SmartHomeHumiditySensor", "SmartHomeBattery", "SmartHomeMultimeter",
     "SmartHomeSwitch"}

\* every always-present attribute of the reply is there
WellFormedDevice(dev) ==
    /\ DeviceKeys \subseteq DOMAIN dev
    /\ \A u \in 1..Len(dev.units) :
          /\ UnitKeys \subseteq DOMAIN dev.units[u]
          /\ \A s \in 1..Len(dev.units[u].skills) :
                Has(dev.units[u].skills[s], "type")

WellFormed(resp) ==
    /\ RequestDevices(resp).exc = ""
    /\ \A i \in 1..Len(resp.data.data.devices) :
          WellFormedDevice(resp.data.data.devices[i])

NoRelevantSkill(dev) ==
    \A u \in 1..Len(dev.units) : \A s \in 1..Len(dev.units[u].skills) :
        dev.units[u].skills[s].type \notin RelevantTypes

AlwaysPresent == {"id", "displayName", "present", "model", "identifier"}

\* the loop is past line 170 for device i
Stored(i) == i < devIdx \/ (i = devIdx /\ pc \in {"devices", "fetch", "exit"})

StoredRecord(i) ==
    LET k == CHOOSE k \in 1..Len(simplifiedDevices) :
                 simplifiedDevices[k].key = RawDevices[i].id
    IN  simplifiedDevices[k].value

\* C6: a device without any thermostat, sensor, battery, multimeter or
\* switch skill is normalized without error, to a record of exactly the
\* five always-present keys, present being masterConnectionState = CONNECTED.
C6_OnlyAlwaysPresentFields ==
    (pc # "request" /\ WellFormed(response))
    => \A i \in 1..devIdx :
          NoRelevantSkill(RawDevices[i])
          => /\ pc # "except"
             /\ i = devIdx /\ pc \in {"units", "skills"}
                  => DOMAIN simpleDev = AlwaysPresent
             /\ Stored(i)
                  => /\ DOMAIN StoredRecord(i) = AlwaysPresent
                     /\ StoredRecord(i).id = RawDevices[i].id
                     /\ StoredRecord(i).displayName = RawDevices[i].displayName
                     /\ StoredRecord(i).model = RawDevices[i].model
                     /\ StoredRecord(i).identifier
                          = RawDevices[i].actorIdentificationNumber
                     /\ StoredRecord(i).present
                          = (RawDevices[i].masterConnectionState = "CONNECTED")

\* a disconnected device with a socket and an unknown skill was returned
C6_Witness ==
    /\ pc = "fetch" /\ Len(devices) = 1
    /\ NoRelevantSkill(RawDevices[1])
    /\ Len(RawDevices[1].units) >= 1
    /\ \E s \in 1..Len(RawDevices[1].units[1].skills) :
          RawDevices[1].units[1].skills[s].type = "SmartHomeSocket"
    /\ RawDevices[1].masterConnectionState = "DISCONNECTED"
    /\ DOMAIN devices[1] = AlwaysPresent
    /\ ~devices[1].present

\* C7: when every always-present attribute is there, no combination of
\* present and absent optional fields makes getSimplifiedDevices raise.
C7_OptionalFieldsNeverRaise ==
    WellFormed(response) => pc # "except"

-----------------------------------------------------------------------------
(* Reading standard output back *)

IsHeader(l) == l.kind = "multigraph"

IsDeviceField(l) == l.kind = "field" /\ l.id # 0

IsValue(l) == IsDeviceField(l) /\ l.attr = "value"

\* the Metric Emitter has run to its end
Measured ==
    /\ pc = "exit" /\ exitStatus = 0
    /\ IsFetch \/ IsMode("debug") \/ (IsMode("config") /\ DirtyConfig)

\* the Metadata Emitter has run to its end
Configured == IsMode("config") /\ (pc = "configured" \/ (pc = "exit" /\ exitStatus = 0))

TemperatureHeaders ==
    {i \in 1..Len(stdout) :
        IsHeader(stdout[i]) /\ stdout[i].name = "temperatures" /\ stdout[i].id = 0}

\* the Metric Emitter's output starts with the last "multigraph temperatures"
MeasureStart == CHOOSE i \in TemperatureHeaders : \A j \in TemperatureHeaders : j <= i

MeasureLines == SubSeq(stdout, MeasureStart, Len(stdout))

ConfigLines == IF Measured THEN SubSeq(stdout, 1, MeasureStart - 1) ELSE stdout

\* the multigraph line that line i of lines stands under
HeaderOf(lines, i) ==
    lines[CHOOSE h \in 1..i :
             IsHeader(lines[h]) /\ \A j \in (h + 1)..i : ~IsHeader(lines[j])]

GroupSeq(lines) ==
    LET hs == SelectSeq(lines, IsHeader)
    IN  [i \in 1..Len(hs) |-> <<hs[i].name, hs[i].id>>]

\* <<group, sub-block id, metric prefix, device id>> of the lines that pass
MetricsOf(lines, Pass(_)) ==
    {<<HeaderOf(lines, i).name, HeaderOf(lines, i).id, lines[i].name, lines[i].id>> :
        i \in {j \in 1..Len(lines) : Pass(lines[j])}}

NameOfId(id) ==
    (CHOOSE j \in 1..Len(devices) : devices[j].id = id)

-----------------------------------------------------------------------------
(* Properties of the emitters, stated on the runs of the dispatcher *)

\* C1: on the same sorted devices the two emitters print the same multigraph
\* groups in the same order, and in every group the metadata declares exactly
\* the device metrics that get a value line.
C1_EmittersRoundTrip ==
    (Measured /\ IsMode("config"))
    => /\ GroupSeq(ConfigLines) = GroupSeq(MeasureLines)
       /\ MetricsOf(ConfigLines, IsDeviceField) = MetricsOf(MeasureLines, IsValue)

NotPresentIds == {devices[j].id : j \in {k \in 1..Len(devices) : ~devices[k].present}}

\* C3: a device that is not CONNECTED gets no value line outside the
\* temperatures listing and its temperature detail block.
C3_AbsentDeviceOnlyInTemperatures ==
    Measured
    => \A i \in 1..Len(MeasureLines) :
          (IsValue(MeasureLines[i]) /\ MeasureLines[i].id \in NotPresentIds)
          => HeaderOf(MeasureLines, i).name \in {"temperatures", "temperatures.t"}

\* C4: a device that is not CONNECTED gets its t<id>.value line in the
\* temperatures listing exactly when it has the current-temperature field.
C4_AbsentDeviceInTemperatureListing ==
    Measured
    => \A j \in 1..Len(devices) :
          ~devices[j].present
          => (Has(devices[j], "currentTemperatureInDegC")
              <=> \E i \in 1..Len(MeasureLines) :
                     /\ IsValue(MeasureLines[i])
                     /\ MeasureLines[i].name = "t"
                     /\ MeasureLines[i].id = devices[j].id
                     /\ HeaderOf(MeasureLines, i).name = "temperatures")

\* the reply came, without data, without devices or with a device that
\* lacks an always-present attribute
Malformed(resp) ==
    /\ resp.exc = ""
    /\ \/ RequestDevices(resp).exc # ""
       \/ \E i \in 1..Len(resp.data.data.devices) :
             ~(DeviceKeys \subseteq DOMAIN resp.data.data.devices[i])

IsEmitterLine(l) == l.kind \in {"multigraph", "graph", "field", "text"}

IsTracedRecord(l) == l.kind = "debug" /\ l.name = "pprint" /\ l.val = "simpleDev"

FailedAsAWhole ==
    /\ pc \in {"except", "exit"}
    /\ pc = "exit" => exitStatus = 1
    /\ devices = <<>>

\* C8 as stated: on a malformed reply the call fails as a whole and no record
\* of a device handled before the malformed one is handed on or printed.
C8_NoRecordPrinted ==
    (Malformed(response) /\ fetches >= 1)
    => /\ FailedAsAWhole
       /\ \A i \in 1..Len(stdout) :
             ~IsEmitterLine(stdout[i]) /\ ~IsTracedRecord(stdout[i])

\* C8 amended: on a malformed reply the call fails as a whole, nothing is
\* handed to an emitter and no emitter line is printed; records of devices
\* handled before the malformed one show up only in the trace of debug mode.
C8_NoPartialNormalization ==
    (Malformed(response) /\ fetches >= 1)
    => /\ FailedAsAWhole
       /\ \A i \in 1..Len(stdout) :
             /\ ~IsEmitterLine(stdout[i])
             /\ IsTracedRecord(stdout[i]) => IsMode("debug")

\* config mode crashed on a malformed last device after two good ones
C8_Witness ==
    /\ pc = "exit" /\ IsMode("config") /\ fetches = 1
    /\ Malformed(response) /\ RequestDevices(response).exc = ""
    /\ Len(RawDevices) = 3
    /\ DeviceKeys \subseteq DOMAIN RawDevices[1]
    /\ DeviceKeys \subseteq DOMAIN RawDevices[2]
    /\ ~Has(RawDevices[3], "id")
    /\ Len(simplifiedDevices) = 2
    /\ devices = <<>> /\ stdout = <<>> /\ exitStatus = 1

\* getDevices has returned its list
Returned ==
    \/ pc \in {"config", "configured", "debug", "fetch"}
    \/ pc = "exit" /\ exitStatus = 0 /\ fetches = 1

Ascending(names) ==
    \A k \in 1..(Len(names) - 1) : ~StrLess(names[k + 1], names[k])

\* the display names along the device lines of each group, and along the
\* sub-blocks of each kind, of one emitter's output
GroupsAscending(lines) ==
    LET marks == SelectSeq(lines, LAMBDA l : IsHeader(l) \/ IsDeviceField(l))
        subs  == SelectSeq(lines, LAMBDA l : IsHeader(l) /\ l.id # 0)
    IN  /\ \A k \in 1..(Len(marks) - 1) :
              (IsDeviceField(marks[k]) /\ IsDeviceField(marks[k + 1]))
              => ~StrLess(devices[NameOfId(marks[k + 1].id)].displayName,
                          devices[NameOfId(marks[k].id)].displayName)
        /\ \A k \in 1..(Len(subs) - 1) :
              subs[k].name = subs[k + 1].name
              => ~StrLess(devices[NameOfId(subs[k + 1].id)].displayName,
                          devices[NameOfId(subs[k].id)].displayName)

\* C10: getDevices returns the records of the mapping, each once, in
\* ascending displayName order, and both emitters print the device lines of
\* every group and the sub-blocks in that order.
C10_SortedEmission ==
    Returned
    => /\ Len(devices) = Len(simplifiedDevices)
       /\ \A k \in 1..Len(simplifiedDevices) :
             \E j \in 1..Len(devices) :
                /\ devices[j].id = simplifiedDevices[k].key
                /\ devices[j] = simplifiedDevices[k].value
       /\ Ascending([j \in 1..Len(devices) |-> devices[j].displayName])
       /\ Configured => GroupsAscending(ConfigLines)
       /\ Measured => GroupsAscending(MeasureLines)

\* three devices that arrive in descending name order are printed ascending
C10_Witness ==
    /\ Measured /\ IsMode("config")
    /\ Len(RawDevices) = 3 /\ Len(devices) = 3
    /\ RawDevices[1].displayName = "a" /\ RawDevices[2].displayName = "B"
    /\ RawDevices[3].displayName = "A"
    /\ devices[1].displayName = "A" /\ devices[2].displayName = "B"
    /\ devices[3].displayName = "a"
    /\ \E i \in 1..Len(MeasureLines) : IsValue(MeasureLines[i])

-----------------------------------------------------------------------------
(* The energy conversion, stated on the stepwise run *)

AllSkills(dev) == Flatten([u \in 1..Len(dev.units) |-> dev.units[u].skills])

\* the multimeter skills of a device that carry powerPerHour
Metered(dev) ==
    {k \in 1..Len(AllSkills(dev)) :
        /\ AllSkills(dev)[k].type = "SmartHomeMultimeter"
        /\ Has(AllSkills(dev)[k], "powerPerHour")}

\* powerPerHour of the last of them
PowerPerHourOf(dev) ==
    AllSkills(dev)[CHOOSE k \in Metered(dev) : \A j \in Metered(dev) : j <= k]
        .powerPerHour

LinesOf(name, id) ==
    SelectSeq(stdout, LAMBDA l : IsValue(l) /\ l.name = name /\ l.id = id)

\* x is a double next to p / 1000: 1000 * x and p differ by at most half a
\* unit in the last place of x
NextToThousandth(x, p) ==
    IF p = 0 THEN x.mant = Zeros(MantBits)
    ELSE LET b   == MulSmall(x.mant, 1000)
             q   == BitsOfNat(p) \o Zeros(0 - x.exp)
             bhi == SubSeq(b, 1, Len(b) - 20)
             blo == NatOfBits(SubSeq(b, Len(b) - 19, Len(b)))
             qhi == SubSeq(q, 1, Len(q) - 20)
         IN  /\ x.exp <= 0 - 20 /\ x.mant[1] = 1
             /\ \/ bhi = qhi /\ blo <= 500
                \/ IncBits(bhi) = qhi /\ blo >= 2^20 - 500

\* one connected device was fetched and printed
FetchedOne ==
    /\ pc = "exit" /\ exitStatus = 0 /\ WellFormed(response)
    /\ Len(RawDevices) = 1 /\ Len(devices) = 1

NoEnergy ==
    /\ ~Has(devices[1], "energyInKWH")
    /\ LinesOf("smarthome_powerAvg", devices[1].id) = <<>>
    /\ LinesOf("energy", devices[1].id) = <<>>

\* C9 as stated: powerPerHour = p on a connected device gives p / 1000 kWh
\* and the smarthome_powerAvg value exactly p * 3600; without powerPerHour
\* there is no energyInKWH and no smarthome_powerAvg or energy line.
C9_PowerAvgExact ==
    FetchedOne
    => IF Metered(RawDevices[1]) = {} THEN NoEnergy
       ELSE devices[1].present
            => LET p == PowerPerHourOf(RawDevices[1])
               IN  /\ NextToThousandth(devices[1].energyInKWH, p)
                   /\ Len(LinesOf("smarthome_powerAvg", devices[1].id)) = 1
                   /\ LinesOf("smarthome_powerAvg", devices[1].id)[1].val
                        = PadLeft(ToString(p * 3600), 15)

\* C9 amended: energyInKWH is the double next to p / 1000 and the
\* smarthome_powerAvg value is the truncated double product, which is
\* p * 3600 or one less (9 gives 32399, 500 gives 1800000, 1000 gives
\* 3600000); without powerPerHour there is no energyInKWH and no
\* smarthome_powerAvg or energy line.
C9_PowerAvgTruncated ==
    FetchedOne
    => IF Metered(RawDevices[1]) = {} THEN NoEnergy
       ELSE devices[1].present
            => LET p    == PowerPerHourOf(RawDevices[1])
                   avg  == LinesOf("smarthome_powerAvg", devices[1].id)
                   kwh  == LinesOf("energy", devices[1].id)
               IN  /\ NextToThousandth(devices[1].energyInKWH, p)
                   /\ Len(avg) = 1 /\ Len(kwh) = 1
                   /\ kwh[1].args = <<devices[1].energyInKWH>>
                   /\ avg[1].val \in {PadLeft(ToString(p * 3600), 15),
                                      PadLeft(ToString(p * 3600 - 1), 15)}
                   /\ p = 9 => avg[1].val = "          32399"
                   /\ p = 500 => avg[1].val = "        1800000"
                   /\ p = 1000 => avg[1].val = "        3600000"

\* powerPerHour = 9 was fetched and printed as 32399
C9_Witness ==
    /\ FetchedOne /\ devices[1].present
    /\ Metered(RawDevices[1]) # {}
    /\ PowerPerHourOf(RawDevices[1]) = 9
    /\ \E i \in 1..Len(stdout) :
          /\ IsValue(stdout[i]) /\ stdout[i].name = "smarthome_powerAvg"
          /\ stdout[i].val = "          32399"

-----------------------------------------------------------------------------
(* The totals of the aggregating groups *)

TotalGroups == {<<"smarthome_power", "powerInWatt">>,
                <<"smarthome_powerAvg", "energyInKWH">>,
                <<"energy", "energyInKWH">>}

\* the metric names of the connected devices that carry the field, in the
\* order of the sorted list
Operands(group, field) ==
    LET q == SelectSeq(devices, LAMBDA dev : dev.present /\ Has(dev, field))
    IN  [i \in 1..Len(q) |-> group \o ToString(q[i].id)]

\* sep names[1] sep names[2] ... sep names[n]
RECURSIVE Prefixed(_, _, _)
Prefixed(sep, names, n) ==
    IF n = 0 THEN "" ELSE Prefixed(sep, names, n - 1) \o sep \o names[n]

OrderLinesOf(lines, group) ==
    {i \in 1..Len(lines) :
        /\ lines[i].kind = "graph" /\ lines[i].name = "graph_order"
        /\ HeaderOf(lines, i).name = group}

CdefLinesOf(lines, group) ==
    {i \in 1..Len(lines) :
        /\ lines[i].kind = "field" /\ lines[i].attr = "cdef"
        /\ lines[i].name = "total_" \o group}

\* the total of one group in the metadata lines: ops are the operands
TotalIs(lines, group, ops, order, cdef) ==
    /\ Cardinality(order) = 1
    /\ Cardinality(cdef) = 1
    /\ \A i \in order :
          lines[i].val
            = "total_" \o group
              \o (IF Len(ops) = 0 THEN " " ELSE Prefixed(" ", ops, Len(ops)))
    /\ \A i \in cdef :
          /\ HeaderOf(lines, i).name = group
          /\ Len(lines[i].args) = Len(ops)
          /\ Len(ops) >= 1
             => lines[i].val
                  = ops[1] \o Prefixed(",", Tail(ops), Len(ops) - 1)
                    \o Prefixed(",", [k \in 1..(Len(ops) - 1) |-> "ADDNAN"],
                                Len(ops) - 1)

TotalsAre(lines) ==
    \A g \in TotalGroups :
       TotalIs(lines, g[1], Operands(g[1], g[2]),
               OrderLinesOf(lines, g[1]), CdefLinesOf(lines, g[1]))

\* C11: for smarthome_power, smarthome_powerAvg and energy the metadata has
\* one graph_order line, total_<group> first and then the metrics of the
\* connected devices that carry the group's field, each once in sorted
\* order, and one total_<group>.cdef line in that group with these n metrics
\* as operands followed by n - 1 ADDNAN operators.
C11_TotalOfPresentDevices == Configured => TotalsAre(ConfigLines)

PowerTotalIs(lines, cdef, ops) ==
    /\ Len(ops) = 2
    /\ \E i \in cdef : lines[i].val = ops[1] \o "," \o ops[2] \o ",ADDNAN"

\* two connected devices with a power reading and a disconnected one with
\* an energy reading were configured: one ADDNAN in the power total
C11_Witness ==
    /\ Configured /\ Len(devices) = 3
    /\ \E j \in 1..3 : ~devices[j].present /\ Has(devices[j], "energyInKWH")
    /\ PowerTotalIs(ConfigLines, CdefLinesOf(ConfigLines, "smarthome_power"),
                    Operands("smarthome_power", "powerInWatt"))

-----------------------------------------------------------------------------
(* The default mode *)

\* the retrieval or the normalization of the reply raises
Failing(resp) == getDevices(resp).exc # ""

\* C12: in the default mode (no argument, or fetch) a failure of the
\* retrieval or of the normalization ends the process with the one message
\* "Couldn't retrieve fritzbox smarthome data" and a non-zero exit status,
\* without a traceback and without a line on standard output.
C12_DefaultModeFailsCleanly ==
    (IsFetch /\ fetches >= 1 /\ Failing(response))
    => /\ pc \in {"except", "exit"}
       /\ stdout = <<>>
       /\ pc = "except" => stderr = <<>>
       /\ pc = "exit"
          => /\ exitStatus # 0
             /\ stderr = <<"Couldn't retrieve fritzbox smarthome data">>

\* the program was started without argument, the last of three devices had
\* no id, and the process has ended with the message
C12_Witness ==
    /\ argv = <<>> /\ pc = "exit" /\ fetches = 1
    /\ RequestDevices(response).exc = ""
    /\ Len(RawDevices) = 3 /\ ~Has(RawDevices[3], "id")
    /\ Len(simplifiedDevices) = 2
    /\ exitStatus = 1 /\ stdout = <<>>
    /\ stderr = <<"Couldn't retrieve fritzbox smarthome data">>

-----------------------------------------------------------------------------
(* The target temperature, stated on the stepwise run *)

\* positions of the thermostat skills in unit order, then skill order
ThermostatSkills(skills) ==
    {k \in 1..Len(skills) : skills[k].type = "SmartHomeThermostat"}

\* targetTemp of a skill, or None
TargetOf(skill) == IF Has(skill, "targetTemp") THEN skill.targetTemp ELSE None

\* the target of a record built from the skills, and its tsoll lines
TargetIs(rec, skills, th, tsoll) ==
    /\ Has(rec, "targetTemperatureInDegC") <=> th # {}
    /\ th # {}
       => rec.targetTemperatureInDegC
            = TargetOf(skills[CHOOSE k \in th : \A j \in th : j <= k])
    /\ tsoll # <<>>
       => /\ rec.present
          /\ Has(rec, "targetTemperatureInDegC")
          /\ rec.targetTemperatureInDegC # None
          /\ \A i \in 1..Len(tsoll) : tsoll[i].val = rec.targetTemperatureInDegC

\* C13: the record has the key targetTemperatureInDegC exactly when the
\* device has a SmartHomeThermostat skill; its value is the targetTemp of
\* the last thermostat skill, or None when that skill has none; a
\* tsoll<id>.value line is printed only for a connected device whose target
\* is not None.
C13_TargetNoneOrAbsent ==
    FetchedOne
    => TargetIs(devices[1], AllSkills(RawDevices[1]),
                ThermostatSkills(AllSkills(RawDevices[1])),
                LinesOf("tsoll", devices[1].id))

\* a connected device whose first thermostat skill has a target and whose
\* last one has none: the record holds None and no tsoll line is printed
C13_Witness ==
    /\ FetchedOne /\ devices[1].present
    /\ ThermostatSkills(AllSkills(RawDevices[1])) = {1, 2}
    /\ Has(AllSkills(RawDevices[1])[1], "targetTemp")
    /\ ~Has(AllSkills(RawDevices[1])[2], "targetTemp")
    /\ Has(devices[1], "targetTemperatureInDegC")
    /\ devices[1].targetTemperatureInDegC = None
    /\ LinesOf("tsoll", devices[1].id) = <<>>
    /\ \E i \in 1..Len(stdout) : IsValue(stdout[i])

-----------------------------------------------------------------------------
(* Readings that are listed without a value *)

\* C14: every value line of the Metric Emitter carries a concrete reading:
\* a field whose normalized value is None gets no value line in any group.
C14_ValueLinesAreReadings ==
    Measured
    => \A i \in 1..Len(MeasureLines) :
          IsValue(MeasureLines[i]) => MeasureLines[i].val # None

-----------------------------------------------------------------------------
(* The sequence of a config run and of an autoconf run *)

HostLines(lines) ==
    {i \in 1..Len(lines) : lines[i].kind = "text" /\ lines[i].name = "host_name"}

\* lines are the whole output of the Metadata Emitter for the list, with
\* the host_name line at the end exactly when withHost
MetadataIs(lines, simpleDevices, withHost) ==
    /\ HostLines(lines) = (IF withHost THEN {Len(lines)} ELSE {})
    /\ withHost => lines[Len(lines)].val = environ.host_name
    /\ SubSeq(lines, 1, Len(lines) - (IF withHost THEN 1 ELSE 0))
         = print_config(simpleDevices, EmptyDict)

\* out is the metadata, followed by an empty line and the values exactly
\* when dirty
OutputIs(out, values, dirty, withHost) ==
    IF dirty
    THEN /\ Len(out) > Len(values)
         /\ SubSeq(out, Len(out) - Len(values), Len(out)) = <<Blank>> \o values
         /\ MetadataIs(SubSeq(out, 1, Len(out) - Len(values) - 1), devices, withHost)
    ELSE MetadataIs(out, devices, withHost)

ConfigSequence(withHost) ==
    /\ IsMode("config")
       => /\ fetches = (IF pc = "main" THEN 0 ELSE 1)
          /\ pc \in {"main", "config"} => stdout = <<>>
          /\ pc \in {"config", "configured"} \/ (pc = "exit" /\ exitStatus = 0)
             => devices = getDevices(response).val
          /\ pc = "configured" => MetadataIs(stdout, devices, withHost)
          /\ pc = "exit" /\ exitStatus = 0
             => OutputIs(stdout, print_smart_home_measurements(devices),
                         DirtyConfig, withHost)
    /\ IsMode("autoconf")
       => /\ fetches = 0 /\ devices = <<>> /\ simplifiedDevices = <<>>
          /\ stdout = (IF pc = "exit" THEN <<Text("yes")>> ELSE <<>>)

\* C15 as stated: a config run fetches once, prints the whole metadata, with
\* the host_name line at its end when the variable host_name is set, and
\* after it the values of the same devices exactly when
\* MUNIN_CAP_DIRTYCONFIG is "1"; an autoconf run prints yes and fetches
\* nothing.
C15_HostNameWhenSet == ConfigSequence(Has(environ, "host_name"))

\* C15 amended: the same, with the host_name line at the end of the metadata
\* when the variable host_name is set to a value that is not empty.
C15_HostNameWhenNotEmpty ==
    ConfigSequence(Has(environ, "host_name") /\ environ.host_name # "")

\* a config run with dirty config and a host name has printed the metadata
\* of two devices or more, the host_name line and then the values
C15_Witness ==
    /\ IsMode("config") /\ pc = "exit" /\ exitStatus = 0 /\ fetches = 1
    /\ DirtyConfig /\ Has(environ, "host_name") /\ environ.host_name = "munin"
    /\ Len(devices) >= 2
    /\ \E i \in HostLines(stdout) :
          /\ stdout[i + 1] = Blank
          /\ stdout[i + 2] = Multigraph("temperatures")
          /\ \E j \in (i + 3)..Len(stdout) : IsValue(stdout[j])
          /\ \A j \in 1..i : ~IsValue(stdout[j])

-----------------------------------------------------------------------------
(* Devices that share an id *)

\* the last device of the reply with the id
LastWithId(raw, id) ==
    raw[CHOOSE i \in 1..Len(raw) :
           raw[i].id = id /\ \A j \in (i + 1)..Len(raw) : raw[j].id # id]

\* the dict has one entry per id of the reply: the record of the last
\* device with the id, built from that device alone
OnePerId(dict, raw) ==
    /\ Len(dict) = Cardinality({raw[i].id : i \in 1..Len(raw)})
    /\ \A i \in 1..Len(raw) : \E k \in 1..Len(dict) : dict[k].key = raw[i].id
    /\ \A k \in 1..Len(dict) :
          /\ \A j \in 1..Len(dict) : dict[j].key = dict[k].key => j = k
          /\ dict[k].value = NormalizeDevice(LastWithId(raw, dict[k].key)).val

\* no group of the lines has two lines of one metric, id and attribute
MetricKey(header, line) ==
    <<header.name, header.id, line.name, line.id, line.attr>>

NoMetricTwice(lines, fields) ==
    Cardinality({MetricKey(HeaderOf(lines, i), lines[i]) : i \in fields})
      = Cardinality(fields)

DeviceFieldsOf(lines) == {i \in 1..Len(lines) : IsDeviceField(lines[i])}

\* C16: the mapping of getSimplifiedDevices has exactly one record per
\* distinct id of the reply, the record built from the last device with that
\* id and from nothing else, and no group of either emitter's output has a
\* metric <prefix><id> twice.
C16_OneRecordPerId ==
    Returned
    => /\ OnePerId(simplifiedDevices, RawDevices)
       /\ Configured => NoMetricTwice(ConfigLines, DeviceFieldsOf(ConfigLines))
       /\ Measured => NoMetricTwice(MeasureLines, DeviceFieldsOf(MeasureLines))

\* the first and the third device of the reply share id 1: the one record
\* with id 1 is that of the third, without the target of the first
C16_Witness ==
    /\ Measured /\ IsMode("config")
    /\ Len(RawDevices) = 3 /\ Len(devices) = 2
    /\ RawDevices[1].id = 1 /\ RawDevices[3].id = 1
    /\ RawDevices[1].displayName = "A" /\ RawDevices[3].displayName = "B"
    /\ \E k \in 1..Len(simplifiedDevices) :
          /\ simplifiedDevices[k].key = 1
          /\ simplifiedDevices[k].value.displayName = "B"
          /\ ~Has(simplifiedDevices[k].value, "targetTemperatureInDegC")
          /\ Has(simplifiedDevices[k].value, "currentHumidityInPct")
    /\ \E i \in 1..Len(MeasureLines) :
          /\ IsValue(MeasureLines[i])
          /\ MeasureLines[i].name = "humidity" /\ MeasureLines[i].id = 1

====
